---- MODULE Spec2Model ----
(***************************************************************************)
(* OrbitBank ledger core: the committed store (accounts, transactions,     *)
(* entries, transfers), the request handlers deposit_to_account,           *)
(* withdraw_from_account and create_new_transfer cut at their await points *)
(* (select, flush, commit, post-commit refresh and notification), the      *)
(* notification services the handlers depend on, and the generic CRUD      *)
(* routes on accounts, transactions and transfers.  Every handler runs in  *)
(* its own AsyncSession: what it read stays in the session's objects, and  *)
(* only session.commit() makes its rows and balance writes part of the     *)
(* store.                                                                  *)
(* Spec: concurrent movements with the account routes.  SpecMove: the      *)
(* concurrent movements alone.  SpecRoutes: the generic routes of          *)
(* transactions and transfers with one movement at a time.  SpecPhone:     *)
(* deposits for every phone number of the owner.  SpecStatus: the          *)
(* movements on accounts of every status.  SpecReads: the paginated read   *)
(* routes on stores of committed units.                                    *)
(***************************************************************************)
EXTENDS Integers, Sequences, FiniteSets, TLC

\* Bounds of the model.
MaxTx == 2          \* transaction ids the sequence hands out
MaxMoney == 1       \* largest amount of a request and of an account payload

AccountIds == {1, 2}
Requests == {1, 2}                  \* request-handling tasks running at once
Currencies == {"USD", "EUR"}
Amounts == (-1)..MaxMoney           \* amounts a client may send
PayloadBalances == 0..MaxMoney      \* balances of AccountCreate / AccountUpdate
AccountFields == {"balance"}

VARIABLES
    accounts,       \* accounts table: id -> row
    transactions,   \* transactions table: id -> row (ids may have gaps)
    entries,        \* entries table, in insertion order
    transfers,      \* transfers table, in insertion order
    txSeq,          \* last value of the transactions id sequence
    req,            \* per request task: position, session-local objects, response
    services,       \* which notification services the process could initialise
    phones,         \* the phone number of each account's owner
    reads           \* the last answer of a paginated read route

vars == <<accounts, transactions, entries, transfers, txSeq, req, services, phones, reads>>
store == <<accounts, transactions, entries, transfers>>

NoAccount == [exists |-> FALSE, balance |-> 0, currency_code |-> "USD"]

\* A request task: op and the request's fields, the Account objects its
\* session loaded (fromBal, fromCur, toBal, toCur), the id its Transaction
\* drew at the flush and the status of that Transaction object (txStatus),
\* and at the end its response (res) with the background tasks queued behind
\* it.
Idle ==
    [pc |-> "idle", op |-> "none", from |-> 0, to |-> 0, amount |-> 0,
     fromFound |-> FALSE, fromBal |-> 0, fromCur |-> "",
     toFound |-> FALSE, toBal |-> 0, toCur |-> "",
     tx |-> 0, txStatus |-> "", res |-> "", queued |-> {}]

----------------------------------------------------------------------------
\* Pure helpers.

RECURSIVE SumAmounts(_)
SumAmounts(s) ==
    IF s = <<>> THEN 0 ELSE Head(s).amount + SumAmounts(Tail(s))

EntriesOfAccount(a) == SelectSeq(entries, LAMBDA e : e.account_id = a)
EntriesOfTx(t) == SelectSeq(entries, LAMBDA e : e.transaction_id = t)
Committed(t) == t \in DOMAIN transactions
TransferRowsOf(t) == {i \in DOMAIN transfers : transfers[i].transaction_id = t}

\* The unit of work emits UPDATE accounts SET balance only when the attribute's
\* value differs from the one loaded; the value written is the one computed in
\* the handler from the loaded balance.
WriteBalance(accts, a, loaded, new) ==
    IF new = loaded THEN accts ELSE [accts EXCEPT ![a].balance = new]

\* Request body validation.
DepositRequest(amt) == TRUE
WithdrawalRequest(amt) == amt > 0
NewTransferRequest(amt) == amt > 0

\* Phone numbers are strings, written as sequences of characters.
Digits == {"0", "1", "2", "3", "4", "5", "6", "7", "8", "9"}
MinRest == 1
MaxRest == 14

\* The pattern with the "+" made optional.
_validate_phone_number_plusOptional(phone_number) ==
    LET digits == IF phone_number # <<>> /\ phone_number[1] = "+"
                  THEN Tail(phone_number) ELSE phone_number
        n == Len(digits)
    IN /\ n >= 1 /\ digits[1] \in Digits \ {"0"}
       /\ n - 1 >= MinRest /\ n - 1 <= MaxRest
       /\ \A i \in 2..n : digits[i] \in Digits

\* re.fullmatch(r"^\+[1-9]\d{1,14}$", phone_number): the pattern is matched
\* from the first character on and must use up the string.
_validate_phone_number(phone_number) ==
    LET n == Len(phone_number)
        rest == n - 2
    IN /\ n >= 1 /\ phone_number[1] = "+"
       /\ n >= 2 /\ phone_number[2] \in Digits \ {"0"}
       /\ rest >= MinRest /\ rest <= MaxRest
       /\ \A i \in 3..n : phone_number[i] \in Digits

\* Owners' contacts: every user has an email (the column is not nullable);
\* the owner of account 1 has a phone number the check accepts, the owner of
\* account 2 one it rejects.
OwnerPhones == << <<"+", "1", "1">>, <<"1", "1">> >>
OwnerEmail(a) == TRUE
OwnerPhoneValid(a) ==
    /\ phones[a] # <<>>
    /\ _validate_phone_number(phones[a])

\* The tasks queued for the owner of account a: role is the party the message
\* is written for, bal the balance of the refreshed Account object it quotes.
Notifications(role, a, t, bal) ==
    {[channel |-> c, role |-> role, account_id |-> a, transaction_id |-> t,
      balance |-> bal] :
        c \in {ch \in {"email", "sms"} :
                  \/ ch = "email" /\ OwnerEmail(a)
                  \/ ch = "sms" /\ OwnerPhoneValid(a)}}

\* A handler's last statement and the sending of its response are one step of
\* the event loop: no other task runs while a response is pending.
NoRead == [route |-> "none"]

NoPending == \A s \in Requests : req[s].pc # "done"

\* The tasks are interchangeable: task 2 takes a request only while task 1
\* is busy.  A request starts while the id sequence can still serve it.
CanStart(r) ==
    /\ NoPending
    /\ req[r].pc = "idle"
    /\ r = 1 \/ req[1].pc # "idle"
    /\ txSeq + Cardinality({s \in Requests : req[s].pc \in {"select_to", "flush"}}) < MaxTx

\* The handlers' service dependencies are resolved before the body is
\* validated and before the handler runs, in the order of the parameters:
\* get_ses_service raises when the SES configuration is incomplete (an
\* unhandled error, answered 500), get_sns_service raises 503 when the SNS
\* client could not be created.
ServiceDependencies ==
    IF ~services.ses THEN "500"
    ELSE IF ~services.sns THEN "503"
    ELSE "ok"

Arrive(r, op, f, t, amt) ==
    [Idle EXCEPT !.op = op, !.from = f, !.to = t, !.amount = amt]

Loaded(rq, a) ==
    [rq EXCEPT !.fromFound = TRUE, !.fromBal = accounts[a].balance,
               !.fromCur = accounts[a].currency_code]

Finish(rq, code) == [rq EXCEPT !.pc = "done", !.res = code]

----------------------------------------------------------------------------
Init ==
    /\ accounts = [a \in AccountIds |-> NoAccount]
    /\ transactions = <<>>
    /\ entries = <<>>
    /\ transfers = <<>>
    /\ txSeq = 0
    /\ req = [r \in Requests |-> Idle]
    /\ services \in [ses : BOOLEAN, sns : BOOLEAN]
    /\ phones = OwnerPhones
    /\ reads = NoRead

----------------------------------------------------------------------------
\* Generic CRUD routes on accounts (create_crud_router over Account).

\* POST /accounts/ : the row gets the payload's balance; no Entry is written.
create_item(bal, cur) ==
    /\ NoPending
    /\ \E a \in AccountIds :
        /\ ~accounts[a].exists
        /\ \A b \in AccountIds : b < a => accounts[b].exists
        /\ accounts' = [accounts EXCEPT ![a] =
                [exists |-> TRUE, balance |-> bal, currency_code |-> cur]]
    /\ UNCHANGED <<transactions, entries, transfers, txSeq, req, services, phones, reads>>

\* PUT /accounts/{id} : only the fields present in the payload are set.
update_item(a, fields, bal, cur) ==
    /\ NoPending
    /\ accounts[a].exists
    /\ accounts' = [accounts EXCEPT ![a] =
            [exists |-> TRUE,
             balance |-> IF "balance" \in fields THEN bal ELSE @.balance,
             currency_code |-> IF "currency_code" \in fields THEN cur
                               ELSE @.currency_code]]
    /\ UNCHANGED <<transactions, entries, transfers, txSeq, req, services, phones, reads>>

----------------------------------------------------------------------------
\* The steps the three handlers share in shape.  Each handler's own
\* definitions follow.

\* session.flush() inserts the Transaction row in the open database
\* transaction and draws its id (deposit and withdraw create it COMPLETED with
\* completed_at, a transfer creates it PENDING); a failure here is raised outside the
\* handler's try block, the session dependency rolls back and the framework
\* answers 500.
Flush(r, ok) ==
    /\ NoPending
    /\ req[r].pc = "flush"
    /\ IF ok
       THEN /\ txSeq' = txSeq + 1
            /\ req' = [req EXCEPT ![r].pc = "commit", ![r].tx = txSeq + 1,
                                  ![r].txStatus = IF req[r].op = "transfer" THEN "PENDING"
                                                  ELSE "COMPLETED"]
       ELSE /\ txSeq' = txSeq
            /\ req' = [req EXCEPT ![r] = Finish(@, "500")]
    /\ UNCHANGED <<accounts, transactions, entries, transfers, services, phones, reads>>

\* A failed commit that queues the notifications all the same.
CommitFailed_stillNotifies(r) ==
    /\ req' = [req EXCEPT ![r] =
            [Finish(@, "500") EXCEPT
                !.queued = Notifications("owner", req[r].from, req[r].tx,
                                         accounts[req[r].from].balance)]]
    /\ UNCHANGED <<accounts, transactions, entries, transfers, txSeq, services, phones, reads>>

\* session.commit() failed: the except clause rolls back and raises 500.
CommitFailed(r) ==
    /\ req' = [req EXCEPT ![r] = Finish(@, "500")]
    /\ UNCHANGED <<accounts, transactions, entries, transfers, txSeq, services, phones, reads>>

\* After the commit, inside the same try block: the refreshes, the building
\* and queuing of the notifications, the return.  An exception of any of
\* these lands in the except clause, which raises 500; the tasks added before
\* the exception stay in the request's BackgroundTasks.
AfterCommit(r, ok, queue) ==
    /\ NoPending
    /\ req[r].pc = "post"
    /\ IF ok
       THEN req' = [req EXCEPT ![r] = [Finish(@, "200") EXCEPT !.queued = queue]]
       ELSE \E q \in SUBSET queue :
                req' = [req EXCEPT ![r] = [Finish(@, "500") EXCEPT !.queued = q]]
    /\ UNCHANGED <<accounts, transactions, entries, transfers, txSeq, services, phones, reads>>

----------------------------------------------------------------------------
\* POST /accounts/{account_id}/deposit

\* The handler refusing an account that is not ACTIVE.
deposit_select_activeOnly(r, a, amt) ==
    /\ CanStart(r)
    /\ LET rq == Arrive(r, "deposit", a, 0, amt)
       IN req' = [req EXCEPT ![r] =
            IF ServiceDependencies # "ok" THEN Finish(rq, ServiceDependencies)
            ELSE IF ~DepositRequest(amt) THEN Finish(rq, "422")
            ELSE IF ~accounts[a].exists THEN Finish(rq, "404")
            ELSE IF accounts[a].status # "ACTIVE" THEN Finish(rq, "403")
            ELSE [Loaded(rq, a) EXCEPT !.pc = "flush"]]
    /\ UNCHANGED <<accounts, transactions, entries, transfers, txSeq, services, phones, reads>>

deposit_select(r, a, amt) ==
    /\ CanStart(r)
    /\ LET rq == Arrive(r, "deposit", a, 0, amt)
       IN req' = [req EXCEPT ![r] =
            IF ServiceDependencies # "ok" THEN Finish(rq, ServiceDependencies)
            ELSE IF ~DepositRequest(amt) THEN Finish(rq, "422")
            ELSE IF ~accounts[a].exists THEN Finish(rq, "404")
            ELSE [Loaded(rq, a) EXCEPT !.pc = "flush"]]
    /\ UNCHANGED <<accounts, transactions, entries, transfers, txSeq, services, phones, reads>>

deposit_flush(r) ==
    /\ req[r].op = "deposit"
    /\ \E ok \in BOOLEAN : Flush(r, ok)

\* The Entry committed on its own, the balance written by a later unit.
deposit_commit_entryOnly(r) ==
    /\ NoPending
    /\ req[r].pc = "commit"
    /\ req[r].op = "deposit"
    /\ transactions' = transactions @@ (req[r].tx :>
            [type |-> "DEPOSIT", status |-> req[r].txStatus, completed_at |-> TRUE])
    /\ entries' = Append(entries,
            [account_id |-> req[r].from, amount |-> req[r].amount,
             currency_code |-> req[r].fromCur, transaction_id |-> req[r].tx])
    /\ req' = [req EXCEPT ![r].pc = "post"]
    /\ UNCHANGED <<accounts, transfers, txSeq, services, phones, reads>>

deposit_commit(r) ==
    /\ NoPending
    /\ req[r].pc = "commit"
    /\ req[r].op = "deposit"
    /\ \/ /\ transactions' = transactions @@ (req[r].tx :>
                    [type |-> "DEPOSIT", status |-> req[r].txStatus, completed_at |-> TRUE])
          /\ entries' = Append(entries,
                    [account_id |-> req[r].from, amount |-> req[r].amount,
                     currency_code |-> req[r].fromCur, transaction_id |-> req[r].tx])
          /\ accounts' = WriteBalance(accounts, req[r].from, req[r].fromBal,
                                      req[r].fromBal + req[r].amount)
          /\ req' = [req EXCEPT ![r].pc = "post"]
          /\ UNCHANGED <<transfers, txSeq, services, phones, reads>>
       \/ CommitFailed(r)

deposit_notify(r) ==
    /\ req[r].op = "deposit"
    /\ \E ok \in BOOLEAN :
        AfterCommit(r, ok, Notifications("owner", req[r].from, req[r].tx,
                                         accounts[req[r].from].balance))

deposit_to_account(r) ==
    \/ \E a \in AccountIds, amt \in Amounts : deposit_select(r, a, amt)
    \/ deposit_flush(r)
    \/ deposit_commit(r)
    \/ deposit_notify(r)

----------------------------------------------------------------------------
\* POST /accounts/{account_id}/withdraw

\* The handler without its funds check.
withdraw_select_noFundsCheck(r, a, amt) ==
    /\ CanStart(r)
    /\ LET rq == Arrive(r, "withdraw", a, 0, amt)
       IN req' = [req EXCEPT ![r] =
            IF ServiceDependencies # "ok" THEN Finish(rq, ServiceDependencies)
            ELSE IF ~WithdrawalRequest(amt) THEN Finish(rq, "422")
            ELSE IF ~accounts[a].exists THEN Finish(rq, "404")
            ELSE [Loaded(rq, a) EXCEPT !.pc = "flush"]]
    /\ UNCHANGED <<accounts, transactions, entries, transfers, txSeq, services, phones, reads>>

withdraw_select(r, a, amt) ==
    /\ CanStart(r)
    /\ LET rq == Arrive(r, "withdraw", a, 0, amt)
       IN req' = [req EXCEPT ![r] =
            IF ServiceDependencies # "ok" THEN Finish(rq, ServiceDependencies)
            ELSE IF ~WithdrawalRequest(amt) THEN Finish(rq, "422")
            ELSE IF ~accounts[a].exists THEN Finish(rq, "404")
            ELSE IF accounts[a].balance < amt
                 THEN Finish(Loaded(rq, a), "400 insufficient funds")
            ELSE [Loaded(rq, a) EXCEPT !.pc = "flush"]]
    /\ UNCHANGED <<accounts, transactions, entries, transfers, txSeq, services, phones, reads>>

withdraw_flush(r) ==
    /\ req[r].op = "withdraw"
    /\ \E ok \in BOOLEAN : Flush(r, ok)

withdraw_commit(r) ==
    /\ NoPending
    /\ req[r].pc = "commit"
    /\ req[r].op = "withdraw"
    /\ \/ /\ transactions' = transactions @@ (req[r].tx :>
                    [type |-> "WITHDRAWAL", status |-> req[r].txStatus, completed_at |-> TRUE])
          /\ entries' = Append(entries,
                    [account_id |-> req[r].from, amount |-> -req[r].amount,
                     currency_code |-> req[r].fromCur, transaction_id |-> req[r].tx])
          /\ accounts' = WriteBalance(accounts, req[r].from, req[r].fromBal,
                                      req[r].fromBal - req[r].amount)
          /\ req' = [req EXCEPT ![r].pc = "post"]
          /\ UNCHANGED <<transfers, txSeq, services, phones, reads>>
       \/ CommitFailed(r)

withdraw_notify(r) ==
    /\ req[r].op = "withdraw"
    /\ \E ok \in BOOLEAN :
        AfterCommit(r, ok, Notifications("owner", req[r].from, req[r].tx,
                                         accounts[req[r].from].balance))

withdraw_from_account(r) ==
    \/ \E a \in AccountIds, amt \in Amounts : withdraw_select(r, a, amt)
    \/ withdraw_flush(r)
    \/ withdraw_commit(r)
    \/ withdraw_notify(r)

----------------------------------------------------------------------------
\* POST /transfers/new

\* The first select: the source account.  A missing source is only acted on
\* after the second select.
transfer_select_from(r, f, t, amt) ==
    /\ CanStart(r)
    /\ LET rq == Arrive(r, "transfer", f, t, amt)
       IN req' = [req EXCEPT ![r] =
            IF ServiceDependencies # "ok" THEN Finish(rq, ServiceDependencies)
            ELSE IF ~NewTransferRequest(amt) THEN Finish(rq, "422")
            ELSE IF ~accounts[f].exists THEN [rq EXCEPT !.pc = "select_to"]
            ELSE [Loaded(rq, f) EXCEPT !.pc = "select_to"]]
    /\ UNCHANGED <<accounts, transactions, entries, transfers, txSeq, services, phones, reads>>

\* The destination as the session returns it: the object already loaded when
\* it is the source account itself, the committed row otherwise.
ToAccount(r) ==
    IF req[r].fromFound /\ req[r].to = req[r].from
    THEN [exists |-> TRUE, balance |-> req[r].fromBal, currency_code |-> req[r].fromCur]
    ELSE accounts[req[r].to]

\* The checks without the comparison of the currencies.
TransferCheck_noCurrencyCheck(r, toAcc) ==
    IF ~req[r].fromFound THEN "404 source"
    ELSE IF ~toAcc.exists THEN "404 destination"
    ELSE IF req[r].fromBal < req[r].amount THEN "400 insufficient funds"
    ELSE "ok"

\* The checks with the destination looked at before the source, and the
\* currencies before the funds.
TransferCheck_destinationFirst(r, toAcc) ==
    IF ~toAcc.exists THEN "404 destination"
    ELSE IF ~req[r].fromFound THEN "404 source"
    ELSE IF req[r].fromCur # toAcc.currency_code THEN "400 currency mismatch"
    ELSE IF req[r].fromBal < req[r].amount THEN "400 insufficient funds"
    ELSE "ok"

\* The validation checks, in the handler's order.
TransferCheck(r, toAcc) ==
    IF ~req[r].fromFound THEN "404 source"
    ELSE IF ~toAcc.exists THEN "404 destination"
    ELSE IF req[r].fromBal < req[r].amount THEN "400 insufficient funds"
    ELSE IF req[r].fromCur # toAcc.currency_code THEN "400 currency mismatch"
    ELSE "ok"

\* The second select, then the checks.
transfer_select_to(r) ==
    /\ NoPending
    /\ req[r].pc = "select_to"
    /\ LET toAcc == ToAccount(r)
           verdict == TransferCheck(r, toAcc)
           rq == IF toAcc.exists
                 THEN [req[r] EXCEPT !.toFound = TRUE, !.toBal = toAcc.balance,
                                     !.toCur = toAcc.currency_code]
                 ELSE req[r]
       IN req' = [req EXCEPT ![r] =
            IF verdict = "ok" THEN [rq EXCEPT !.pc = "flush"]
            ELSE Finish(rq, verdict)]
    /\ UNCHANGED <<accounts, transactions, entries, transfers, txSeq, services, phones, reads>>

transfer_flush(r) ==
    /\ req[r].op = "transfer"
    /\ \E ok \in BOOLEAN : Flush(r, ok)

\* The balances written as if the source and the destination were always two
\* objects, each with its own loaded balance.
TransferBalances_separateObjects(accts, r) ==
    WriteBalance(
        WriteBalance(accts, req[r].from, req[r].fromBal,
                     req[r].fromBal - req[r].amount),
        req[r].to, req[r].toBal, req[r].toBal + req[r].amount)

\* The balances the unit writes: the source and the destination are one
\* object when the ids are equal, so the debit and the credit cancel.
TransferBalances(accts, r) ==
    IF req[r].from = req[r].to
    THEN WriteBalance(accts, req[r].from, req[r].fromBal,
                      (req[r].fromBal - req[r].amount) + req[r].amount)
    ELSE WriteBalance(
            WriteBalance(accts, req[r].from, req[r].fromBal,
                         req[r].fromBal - req[r].amount),
            req[r].to, req[r].toBal, req[r].toBal + req[r].amount)

\* The credit written with the debit's sign.
TransferEntries_sameSign(r) ==
    << [account_id |-> req[r].from, amount |-> -req[r].amount,
        currency_code |-> req[r].fromCur, transaction_id |-> req[r].tx],
       [account_id |-> req[r].to, amount |-> -req[r].amount,
        currency_code |-> req[r].toCur, transaction_id |-> req[r].tx] >>

TransferEntries(r) ==
    << [account_id |-> req[r].from, amount |-> -req[r].amount,
        currency_code |-> req[r].fromCur, transaction_id |-> req[r].tx],
       [account_id |-> req[r].to, amount |-> req[r].amount,
        currency_code |-> req[r].toCur, transaction_id |-> req[r].tx] >>

\* A failed commit that is not rolled back: the flushed Transaction and the
\* debit stay.
transfer_commit_noRollback(r) ==
    /\ NoPending
    /\ req[r].pc = "commit"
    /\ req[r].op = "transfer"
    /\ transactions' = transactions @@ (req[r].tx :>
            [type |-> "TRANSFER", status |-> "PENDING", completed_at |-> FALSE])
    /\ entries' = Append(entries, TransferEntries(r)[1])
    /\ req' = [req EXCEPT ![r] = Finish(@, "500")]
    /\ UNCHANGED <<accounts, transfers, txSeq, services, phones, reads>>

\* The commit without the assignment of COMPLETED: the Transaction is
\* committed with the status it was flushed with.
transfer_commit_statusAsFlushed(r) ==
    /\ NoPending
    /\ req[r].pc = "commit"
    /\ req[r].op = "transfer"
    /\ \/ /\ transactions' = transactions @@ (req[r].tx :>
                    [type |-> "TRANSFER", status |-> req[r].txStatus,
                     completed_at |-> FALSE])
          /\ transfers' = Append(transfers,
                    [transaction_id |-> req[r].tx, from_account_id |-> req[r].from,
                     to_account_id |-> req[r].to, amount |-> req[r].amount,
                     currency_code |-> req[r].fromCur])
          /\ entries' = entries \o TransferEntries(r)
          /\ accounts' = TransferBalances(accounts, r)
          /\ req' = [req EXCEPT ![r].pc = "post"]
          /\ UNCHANGED <<txSeq, services, phones, reads>>
       \/ CommitFailed(r)

\* The Transaction is set COMPLETED with completed_at, then the unit commits.
transfer_commit(r) ==
    /\ NoPending
    /\ req[r].pc = "commit"
    /\ req[r].op = "transfer"
    /\ \/ /\ transactions' = transactions @@ (req[r].tx :>
                    [type |-> "TRANSFER", status |-> "COMPLETED", completed_at |-> TRUE])
          /\ transfers' = Append(transfers,
                    [transaction_id |-> req[r].tx, from_account_id |-> req[r].from,
                     to_account_id |-> req[r].to, amount |-> req[r].amount,
                     currency_code |-> req[r].fromCur])
          /\ entries' = entries \o TransferEntries(r)
          /\ accounts' = TransferBalances(accounts, r)
          /\ req' = [req EXCEPT ![r].pc = "post", ![r].txStatus = "COMPLETED"]
          /\ UNCHANGED <<txSeq, services, phones, reads>>
       \/ CommitFailed(r)

\* The receiver's messages written with the sender's balance.
transfer_notify_senderBalance(r) ==
    /\ req[r].op = "transfer"
    /\ \E ok \in BOOLEAN :
        AfterCommit(r, ok,
            Notifications("sender", req[r].from, req[r].tx,
                          accounts[req[r].from].balance)
            \cup Notifications("receiver", req[r].to, req[r].tx,
                               accounts[req[r].from].balance))

\* Both Account objects are refreshed after the commit; the sender's tasks are
\* queued first, then the receiver's, each channel under its own condition.
transfer_notify(r) ==
    /\ req[r].op = "transfer"
    /\ \E ok \in BOOLEAN :
        AfterCommit(r, ok,
            Notifications("sender", req[r].from, req[r].tx,
                          accounts[req[r].from].balance)
            \cup Notifications("receiver", req[r].to, req[r].tx,
                               accounts[req[r].to].balance))

create_new_transfer(r) ==
    \/ \E f \in AccountIds, t \in AccountIds, amt \in Amounts :
            transfer_select_from(r, f, t, amt)
    \/ transfer_select_to(r)
    \/ transfer_flush(r)
    \/ transfer_commit(r)
    \/ transfer_notify(r)

\* The response has been sent: the task ends and its session is closed.
respond(r) ==
    /\ req[r].pc = "done"
    /\ req' = [req EXCEPT ![r] = Idle]
    /\ UNCHANGED <<accounts, transactions, entries, transfers, txSeq, services, phones, reads>>

----------------------------------------------------------------------------
account_crud_router ==
    \/ \E bal \in PayloadBalances, cur \in Currencies : create_item(bal, cur)
    \/ \E a \in AccountIds, fields \in SUBSET AccountFields,
          bal \in PayloadBalances, cur \in Currencies :
            update_item(a, fields, bal, cur)

Movement(r) ==
    \/ deposit_to_account(r)
    \/ withdraw_from_account(r)
    \/ create_new_transfer(r)
    \/ respond(r)

Next ==
    \/ account_crud_router
    \/ \E r \in Requests : Movement(r)

Spec == Init /\ [][Next]_vars

\* The movement operations alone, on a store the account routes can produce:
\* account 1 opened in USD with the largest balance, account 2 missing or
\* opened empty in either currency.
OpeningBalance(a) == IF a = 1 THEN MaxMoney ELSE 0

InitMove ==
    /\ accounts \in
        {[a \in AccountIds |->
            IF a = 1
            THEN [exists |-> TRUE, balance |-> OpeningBalance(1), currency_code |-> "USD"]
            ELSE second] :
         second \in {NoAccount} \cup
            {[exists |-> TRUE, balance |-> OpeningBalance(2), currency_code |-> c] :
                c \in Currencies}}
    /\ transactions = <<>>
    /\ entries = <<>>
    /\ transfers = <<>>
    /\ txSeq = 0
    /\ req = [r \in Requests |-> Idle]
    /\ services \in [ses : BOOLEAN, sns : BOOLEAN]
    /\ phones = OwnerPhones
    /\ reads = NoRead

NextMove == \E r \in Requests : Movement(r)

SpecMove == InitMove /\ [][NextMove]_vars

----------------------------------------------------------------------------
\* The generic routes of transactions and transfers, and the delete route of
\* accounts (create_crud_router over Transaction, Transfer and Account).
\* There is no router over Entry.  The routes are taken between movement
\* requests.

Quiet == \A r \in Requests : req[r].pc = "idle"

PayloadTypes == {"DEPOSIT", "TRANSFER"}
PayloadStatuses == {"PENDING", "COMPLETED"}
TransactionFields == {"status", "completed_at"}

\* POST /transactions/ : TransactionCreate carries type and status, and no
\* completed_at.
transaction_create_item(type, status) ==
    /\ Quiet
    /\ txSeq < MaxTx
    /\ txSeq' = txSeq + 1
    /\ transactions' = transactions @@ ((txSeq + 1) :>
            [type |-> type, status |-> status, completed_at |-> FALSE])
    /\ UNCHANGED <<accounts, entries, transfers, req, services, phones, reads>>

\* PUT /transactions/{id} : the fields present in TransactionUpdate are set.
transaction_update_item(t, fields, status, completed) ==
    /\ Quiet
    /\ t \in DOMAIN transactions
    /\ transactions' = [transactions EXCEPT ![t] =
            [type |-> @.type,
             status |-> IF "status" \in fields THEN status ELSE @.status,
             completed_at |-> IF "completed_at" \in fields THEN completed
                              ELSE @.completed_at]]
    /\ UNCHANGED <<accounts, entries, transfers, txSeq, req, services, phones, reads>>

\* DELETE /transactions/{id} : the unit of work detaches the rows of the
\* Transaction's relationships by setting their foreign key to NULL (written
\* 0 here).  Entry.transaction_id is nullable; Transfer.transaction_id is not,
\* so a Transaction with a Transfer row is answered 409 and stays.
transaction_delete_item(t) ==
    /\ Quiet
    /\ t \in DOMAIN transactions
    /\ TransferRowsOf(t) = {}
    /\ transactions' = [u \in DOMAIN transactions \ {t} |-> transactions[u]]
    /\ entries' = [i \in DOMAIN entries |->
            IF entries[i].transaction_id = t
            THEN [entries[i] EXCEPT !.transaction_id = 0]
            ELSE entries[i]]
    /\ UNCHANGED <<accounts, transfers, txSeq, req, services, phones, reads>>

transaction_crud_router ==
    \/ \E type \in PayloadTypes, status \in PayloadStatuses :
            transaction_create_item(type, status)
    \/ \E t \in 1..MaxTx, fields \in SUBSET TransactionFields,
          status \in PayloadStatuses, completed \in BOOLEAN :
            transaction_update_item(t, fields, status, completed)
    \/ \E t \in 1..MaxTx : transaction_delete_item(t)

\* POST /transfers/ : TransferCreate names the Transaction and the accounts;
\* the foreign keys and the unique transaction_id are the only checks (409).
transfer_create_item(t, f, to, amt, cur) ==
    /\ Quiet
    /\ t \in DOMAIN transactions
    /\ accounts[f].exists
    /\ accounts[to].exists
    /\ TransferRowsOf(t) = {}
    /\ transfers' = Append(transfers,
            [transaction_id |-> t, from_account_id |-> f, to_account_id |-> to,
             amount |-> amt, currency_code |-> cur])
    /\ UNCHANGED <<accounts, transactions, entries, txSeq, req, services, phones, reads>>

\* DELETE /transfers/{id}.  (TransferUpdate has no field: PUT changes nothing.)
transfer_delete_item(i) ==
    /\ Quiet
    /\ i \in DOMAIN transfers
    /\ transfers' = [j \in 1..(Len(transfers) - 1) |->
            IF j < i THEN transfers[j] ELSE transfers[j + 1]]
    /\ UNCHANGED <<accounts, transactions, entries, txSeq, req, services, phones, reads>>

transfer_crud_router ==
    \/ \E t \in 1..MaxTx, f \in AccountIds, to \in AccountIds,
          amt \in 1..MaxMoney, cur \in Currencies :
            transfer_create_item(t, f, to, amt, cur)
    \/ \E i \in 1..MaxTx : transfer_delete_item(i)

\* DELETE /accounts/{id} : Entry.account_id and the Transfer account columns
\* are not nullable, so an account with entries or transfers is answered 409
\* and stays.
account_delete_item(a) ==
    /\ Quiet
    /\ accounts[a].exists
    /\ EntriesOfAccount(a) = <<>>
    /\ \A i \in DOMAIN transfers :
            a \notin {transfers[i].from_account_id, transfers[i].to_account_id}
    /\ accounts' = [accounts EXCEPT ![a] = NoAccount]
    /\ UNCHANGED <<transactions, entries, transfers, txSeq, req, services, phones, reads>>

\* These routes and one movement request at a time, on the accounts of
\* InitMove.
NextRoutes ==
    \/ \E a \in AccountIds : account_delete_item(a)
    \/ transaction_crud_router
    \/ transfer_crud_router
    \/ Movement(1)

SpecRoutes == InitMove /\ [][NextRoutes]_vars

----------------------------------------------------------------------------
\* Deposits on account 1, one at a time, for every phone number its owner may
\* have: every string of at most MaxLen characters of Alphabet, and the runs
\* of 1 to MaxDigits digits with and without the "+".
MaxLen == 3
MaxDigits == 16
Alphabet == {"+", "0", "1", "a"}
Phones ==
    UNION {[1..n -> Alphabet] : n \in 0..MaxLen}
    \cup {prefix \o [i \in 1..n |-> "1"] :
            prefix \in {<<>>, <<"+">>}, n \in 1..MaxDigits}

InitPhone ==
    /\ accounts = [a \in AccountIds |->
            IF a = 1
            THEN [exists |-> TRUE, balance |-> OpeningBalance(1), currency_code |-> "USD"]
            ELSE NoAccount]
    /\ transactions = <<>>
    /\ entries = <<>>
    /\ transfers = <<>>
    /\ txSeq = 0
    /\ req = [r \in Requests |-> Idle]
    /\ services = [ses |-> TRUE, sns |-> TRUE]
    /\ phones \in {[OwnerPhones EXCEPT ![1] = p] : p \in Phones}
    /\ reads = NoRead

NextPhone ==
    \/ deposit_to_account(1)
    \/ respond(1)

SpecPhone == InitPhone /\ [][NextPhone]_vars

----------------------------------------------------------------------------
\* The movement operations on accounts of every status.  The status column of
\* an account is carried in this specification only: no handler reads it.
AccountStatuses == {"ACTIVE", "INACTIVE", "CLOSED", "FROZEN"}

InitStatus ==
    /\ accounts \in
          [AccountIds ->
              [exists : {TRUE}, balance : {MaxMoney}, currency_code : {"USD"},
               status : AccountStatuses]]
    /\ transactions = <<>>
    /\ entries = <<>>
    /\ transfers = <<>>
    /\ txSeq = 0
    /\ req = [r \in Requests |-> Idle]
    /\ services = [ses |-> TRUE, sns |-> TRUE]
    /\ phones = OwnerPhones
    /\ reads = NoRead

SpecStatus == InitStatus /\ [][NextMove]_vars

----------------------------------------------------------------------------
\* The read routes: each is one SELECT on the committed store (the account row
\* is looked up first and a missing account is answered 404).
get_account_balance(a) == accounts[a].balance
get_account_entries(a) == EntriesOfAccount(a)
get_transaction_entries(t) == EntriesOfTx(t)

----------------------------------------------------------------------------
\* The paginated read routes.  Time stamps are counted in ticks; a day has
\* TicksPerDay of them, the first being 00:00:00 and the last 23:59:59.999999
\* (the resolution of the column).  Null is an absent query parameter and a
\* NULL column.  In the specifications above the time stamps are abstracted
\* (created_at is left out, completed_at is TRUE when set); SpecReads below
\* carries them.
Null == 0
TicksPerDay == 2
StartOfDay(d) == d * TicksPerDay
EndOfDay(d) == d * TicksPerDay + (TicksPerDay - 1)
Dates == 1..3
BadDates == {-1}
Times == EndOfDay(1)..StartOfDay(3)

DefaultLimit == 100
MinLimit == 1
MaxLimit == 200

\* The query parameters tried: no date, the middle day, a string that is not
\* a date; a limit below the minimum, the smallest one, the default, one
\* above the maximum.
QueryDates == {Null, 2} \cup BadDates
Skips == {0, 1}
Limits == {0, 1, DefaultLimit, MaxLimit + 1}
TypeFilters == {"", "DEPOSIT"}

Min(x, y) == IF x < y THEN x ELSE y
Orderings(S) ==
    {f \in [1..Cardinality(S) -> S] :
        \A i, j \in 1..Cardinality(S) : i # j => f[i] # f[j]}

\* Query(0, ge=0) and Query(100, ge=1, le=200)
PageQuery(skip, limit) == skip >= 0 /\ limit >= MinLimit /\ limit <= MaxLimit

\* .offset(skip).limit(limit)
Page(rows, skip, limit) == SubSeq(rows, skip + 1, Min(Len(rows), skip + limit))

Answer(route, a, start, end, type, skip, limit, code, body) ==
    [route |-> route, account_id |-> a, start_date |-> start, end_date |-> end,
     type |-> type, skip |-> skip, limit |-> limit, code |-> code, body |-> body]

\* WHERE account_id = a AND created_at >= start 00:00 AND created_at <= end of
\* end; the rows are entry ids.
StatementRows(a, start, end) ==
    {i \in DOMAIN entries :
        /\ entries[i].account_id = a
        /\ start # Null => entries[i].created_at >= StartOfDay(start)
        /\ end # Null => entries[i].created_at <= EndOfDay(end)}

\* ORDER BY created_at DESC: rows of equal created_at come in any order.
StatementNewestFirst_ascending(S) ==
    {f \in Orderings(S) :
        \A i \in 1..(Len(f) - 1) :
            entries[f[i]].created_at <= entries[f[i + 1]].created_at}

StatementNewestFirst(S) ==
    {f \in Orderings(S) :
        \A i \in 1..(Len(f) - 1) :
            entries[f[i]].created_at >= entries[f[i + 1]].created_at}

get_account_statement ==
    \E a \in AccountIds, start, end \in QueryDates,
       skip \in Skips, limit \in Limits :
        LET answer(code, body) ==
                Answer("statement", a, start, end, Null, skip, limit, code, body)
        IN /\ reads = NoRead
           /\ IF ~PageQuery(skip, limit)
              THEN reads' = answer("422", <<>>)
              ELSE IF ~accounts[a].exists
              THEN reads' = answer("404", <<>>)
              ELSE IF start \in BadDates \/ end \in BadDates
              THEN reads' = answer("400", <<>>)
              ELSE \E rows \in StatementNewestFirst(StatementRows(a, start, end)) :
                      reads' = answer("200", Page(rows, skip, limit))
           /\ UNCHANGED <<accounts, transactions, entries, transfers, txSeq, req,
                          services, phones>>

RelatedTransactionIds_debitsOnly(a) ==
    {entries[i].transaction_id :
        i \in {j \in DOMAIN entries :
                entries[j].account_id = a /\ entries[j].amount < 0}}

\* SELECT DISTINCT transaction_id FROM entries WHERE account_id = a
RelatedTransactionIds(a) ==
    {entries[i].transaction_id : i \in {j \in DOMAIN entries : entries[j].account_id = a}}

\* WHERE id IN (...) AND completed_at >= ... AND completed_at <= ... AND type = ...;
\* a comparison with a NULL completed_at is not true.
HistoryRows(a, start, end, type) ==
    {t \in DOMAIN transactions :
        /\ t \in RelatedTransactionIds(a)
        /\ start # Null =>
              /\ transactions[t].completed_at # Null
              /\ transactions[t].completed_at >= StartOfDay(start)
        /\ end # Null =>
              /\ transactions[t].completed_at # Null
              /\ transactions[t].completed_at <= EndOfDay(end)
        /\ type # "" => transactions[t].type = type}

\* completed_at DESC NULLS LAST
CompletedBefore(x, y) ==
    IF y = Null THEN TRUE ELSE x # Null /\ x >= y

HistoryNewestFirst_nullsFirst(S) ==
    {f \in Orderings(S) :
        \A i \in 1..(Len(f) - 1) :
            CompletedBefore(transactions[f[i + 1]].completed_at,
                            transactions[f[i]].completed_at)}

HistoryNewestFirst(S) ==
    {f \in Orderings(S) :
        \A i \in 1..(Len(f) - 1) :
            CompletedBefore(transactions[f[i]].completed_at,
                            transactions[f[i + 1]].completed_at)}

get_account_transactions ==
    \E a \in AccountIds, start, end \in QueryDates, type \in TypeFilters,
       skip \in Skips, limit \in Limits :
        LET answer(code, body) ==
                Answer("transactions", a, start, end, type, skip, limit, code, body)
        IN /\ reads = NoRead
           /\ IF ~PageQuery(skip, limit)
              THEN reads' = answer("422", <<>>)
              ELSE IF ~accounts[a].exists
              THEN reads' = answer("404", <<>>)
              ELSE IF start \in BadDates \/ end \in BadDates
              THEN reads' = answer("400", <<>>)
              ELSE IF RelatedTransactionIds(a) = {}
              THEN reads' = answer("200", <<>>)
              ELSE \E rows \in HistoryNewestFirst(HistoryRows(a, start, end, type)) :
                      reads' = answer("200", Page(rows, skip, limit))
           /\ UNCHANGED <<accounts, transactions, entries, transfers, txSeq, req,
                          services, phones>>

\* The stores the read routes are asked about: up to MaxRows committed units
\* of work, each a deposit on account 1 or a transfer, created at any tick,
\* whose Transaction has completed_at set to that tick or to NULL (PUT
\* /transactions/{id} can write NULL).  Account 2 exists when a unit used it.
MaxRows == 2
Units ==
    {u \in [type : {"DEPOSIT", "TRANSFER"}, from : AccountIds, to : AccountIds,
            at : Times, completed : BOOLEAN] :
        /\ u.type = "DEPOSIT" => u.from = 1 /\ u.to = 1
        /\ u.type = "TRANSFER" => ~(u.from = 2 /\ u.to = 2)}

EntryOf(a, amt, t, at) ==
    [account_id |-> a, amount |-> amt, currency_code |-> "USD",
     transaction_id |-> t, created_at |-> at]

RECURSIVE EntriesOfUnits(_, _)
EntriesOfUnits(units, t) ==
    IF t > Len(units) THEN <<>>
    ELSE (IF units[t].type = "DEPOSIT"
          THEN << EntryOf(units[t].from, MaxMoney, t, units[t].at) >>
          ELSE << EntryOf(units[t].from, -MaxMoney, t, units[t].at),
                  EntryOf(units[t].to, MaxMoney, t, units[t].at) >>)
         \o EntriesOfUnits(units, t + 1)

RECURSIVE TransfersOfUnits(_, _)
TransfersOfUnits(units, t) ==
    IF t > Len(units) THEN <<>>
    ELSE (IF units[t].type = "DEPOSIT"
          THEN <<>>
          ELSE << [transaction_id |-> t, from_account_id |-> units[t].from,
                   to_account_id |-> units[t].to, amount |-> MaxMoney,
                   currency_code |-> "USD"] >>)
         \o TransfersOfUnits(units, t + 1)

InitReads ==
    \E units \in UNION {[1..n -> Units] : n \in 0..MaxRows} :
        /\ transactions = [t \in 1..Len(units) |->
                [type |-> units[t].type, status |-> "COMPLETED",
                 completed_at |-> IF units[t].completed THEN units[t].at ELSE Null]]
        /\ entries = EntriesOfUnits(units, 1)
        /\ transfers = TransfersOfUnits(units, 1)
        /\ accounts = [a \in AccountIds |->
                IF a = 1 \/ EntriesOfAccount(a) # <<>>
                THEN [exists |-> TRUE,
                      balance |-> MaxRows * MaxMoney + SumAmounts(EntriesOfAccount(a)),
                      currency_code |-> "USD"]
                ELSE NoAccount]
        /\ txSeq = Len(units)
        /\ req = [r \in Requests |-> Idle]
        /\ services = [ses |-> TRUE, sns |-> TRUE]
        /\ phones = OwnerPhones
        /\ reads = NoRead

\* The answer is sent; the reads are taken one at a time.
read_respond ==
    /\ reads # NoRead
    /\ reads' = NoRead
    /\ UNCHANGED <<accounts, transactions, entries, transfers, txSeq, req,
                   services, phones>>

NextReads ==
    \/ get_account_statement
    \/ get_account_transactions
    \/ read_respond

SpecReads == InitReads /\ [][NextReads]_vars

----------------------------------------------------------------------------
\* Properties.

EntriesOfTxIn(t, c) ==
    SelectSeq(entries, LAMBDA e : e.transaction_id = t /\ e.currency_code = c)

\* C1: in every committed state the stored balance of every account equals
\* the sum of the amounts of the Entry rows posted to it.
C1_BalanceIsEntrySum ==
    \A a \in AccountIds :
        accounts[a].exists =>
            accounts[a].balance = SumAmounts(EntriesOfAccount(a))

C3_RowsTogether ==
    /\ \A i \in DOMAIN transfers :
        /\ Committed(transfers[i].transaction_id)
        /\ transactions[transfers[i].transaction_id].type = "TRANSFER"
    /\ \A i \in DOMAIN entries : Committed(entries[i].transaction_id)
    /\ \A t \in DOMAIN transactions :
        transactions[t].type = "TRANSFER" =>
            /\ transactions[t].status = "COMPLETED"
            /\ \E i \in DOMAIN transfers :
                /\ TransferRowsOf(t) = {i}
                /\ EntriesOfTx(t) =
                    << [account_id |-> transfers[i].from_account_id,
                        amount |-> -transfers[i].amount,
                        currency_code |-> transfers[i].currency_code,
                        transaction_id |-> t],
                       [account_id |-> transfers[i].to_account_id,
                        amount |-> transfers[i].amount,
                        currency_code |-> transfers[i].currency_code,
                        transaction_id |-> t] >>

C3_WholeUnit(r) ==
    /\ Committed(req[r].tx)'
    /\ Len(transfers') = Len(transfers) + 1
    /\ Len(entries') = Len(entries) + 2
    /\ req[r].from # req[r].to =>
        /\ accounts'[req[r].from].balance = req[r].fromBal - req[r].amount
        /\ accounts'[req[r].to].balance = req[r].toBal + req[r].amount
    /\ req[r].from = req[r].to => accounts' = accounts

C3_StepAllOrNone ==
    \A r \in Requests :
        (req[r].op = "transfer" /\ req'[r] # req[r]) =>
            \/ UNCHANGED store
            \/ C3_WholeUnit(r)

C3_TransferAllOrNothing == []C3_RowsTogether /\ [][C3_StepAllOrNone]_vars

\* A transfer whose commit failed after its Transaction had been flushed, and
\* nothing of it in the store.
C3_Witness ==
    \E r \in Requests :
        /\ req[r].op = "transfer"
        /\ req[r].pc = "done"
        /\ req[r].res = "500"
        /\ req[r].tx # 0
        /\ ~Committed(req[r].tx)
        /\ EntriesOfTx(req[r].tx) = <<>>
        /\ TransferRowsOf(req[r].tx) = {}

\* C4: withdrawals that jointly overdraw do not all succeed.  On an account
\* that only withdrawals have touched, the withdrawn total never exceeds the
\* balance the account was opened with.
C4_NoJointOverdraw ==
    \A a \in AccountIds :
        LET es == EntriesOfAccount(a)
        IN (\A i \in DOMAIN es :
                /\ Committed(es[i].transaction_id)
                /\ transactions[es[i].transaction_id].type = "WITHDRAWAL")
            => -SumAmounts(es) <= OpeningBalance(a)

\* C5: movements on one account are serialized, so no balance update is
\* lost: the committed balance is the opening balance plus every committed
\* entry of the account.
C5_NoLostUpdate ==
    \A a \in AccountIds :
        accounts[a].exists =>
            accounts[a].balance = OpeningBalance(a) + SumAmounts(EntriesOfAccount(a))

FundsChecked(r) ==
    /\ req[r].op \in {"withdraw", "transfer"}
    /\ req[r].fromFound

NothingOfRequest(r) ==
    /\ req[r].tx = 0
    /\ req[r].queued = {}

\* The step in which request r is answered with `code`.
Answered(r, code) ==
    /\ req[r].pc # "done"
    /\ req'[r].pc = "done"
    /\ req'[r].res = code

C6_RejectedBeforeAnyWrite ==
    \A r \in Requests :
        (/\ FundsChecked(r)
         /\ req[r].op = "transfer" => req[r].toFound
         /\ req[r].amount > req[r].fromBal)
            => /\ req[r].pc = "done"
               /\ req[r].res = "400 insufficient funds"
               /\ NothingOfRequest(r)

C6_RejectionChangesNothing ==
    \A r \in Requests :
        /\ Answered(r, "400 insufficient funds") => UNCHANGED <<store, txSeq>>
        /\ (req[r].pc = "done" /\ req[r].res = "400 insufficient funds" /\ req'[r] # req[r])
                => (req'[r] = Idle /\ UNCHANGED <<store, txSeq>>)

C7_MismatchAnsweredMismatch ==
    \A r \in Requests :
        (/\ req[r].pc = "done"
         /\ req[r].op = "transfer"
         /\ req[r].fromFound /\ req[r].toFound
         /\ req[r].fromCur # req[r].toCur)
            => req[r].res = "400 currency mismatch"

\* C7 amended: a transfer between two existing accounts of different
\* currencies whose source balance, as read, covers the amount is answered
\* with the currency-mismatch error (a balance that does not cover it is
\* answered with insufficient funds first); the rejection draws no
\* Transaction id, queues nothing and leaves accounts, transactions, entries
\* and transfers unchanged.
C7_MismatchRejectedBeforeAnyWrite ==
    \A r \in Requests :
        (/\ req[r].op = "transfer"
         /\ req[r].fromFound /\ req[r].toFound
         /\ req[r].fromCur # req[r].toCur
         /\ req[r].fromBal >= req[r].amount)
            => /\ req[r].pc = "done"
               /\ req[r].res = "400 currency mismatch"
               /\ NothingOfRequest(r)

C7_RejectionChangesNothing ==
    \A r \in Requests :
        Answered(r, "400 currency mismatch") => UNCHANGED <<store, txSeq>>

C7_CurrencyMismatchRejected ==
    []C7_MismatchRejectedBeforeAnyWrite /\ [][C7_RejectionChangesNothing]_vars

C7_Witness ==
    \E r \in Requests :
        /\ req[r].op = "transfer"
        /\ req[r].pc = "done"
        /\ req[r].fromCur # req[r].toCur
        /\ req[r].fromBal >= req[r].amount
        /\ req[r].res = "400 currency mismatch"

\* C8: a deposit, withdraw or transfer whose amount is zero or negative is
\* rejected as a client error before anything is read or written.
C8_NonPositiveAmountRejected ==
    \A r \in Requests :
        (req[r].op # "none" /\ req[r].amount <= 0)
            => /\ req[r].pc = "done"
               /\ req[r].res = "422"
               /\ req[r].tx = 0

\* C9: a deposit or withdraw answered with the internal error has left
\* nothing in the store: no Transaction and no Entry of that request.
C9_InternalErrorLeavesNothing ==
    \A r \in Requests :
        (/\ req[r].pc = "done"
         /\ req[r].op \in {"deposit", "withdraw"}
         /\ req[r].res = "500")
            => /\ ~Committed(req[r].tx)
               /\ EntriesOfTx(req[r].tx) = <<>>

\* C10: a movement whose unit has committed is answered with its success
\* result, whatever happens after the commit.
C10_CommittedAnsweredSuccess ==
    \A r \in Requests :
        (req[r].pc = "done" /\ Committed(req[r].tx)) => req[r].res = "200"

\* C11: the ledger commit of a movement does not depend on the notification
\* services: whatever services could be initialised, a request with a
\* positive amount on existing accounts is handled (its account is read) and
\* is not answered with a service failure.
C11_CommitIndependentOfServices ==
    \A r \in Requests :
        (/\ req[r].pc = "done"
         /\ req[r].op # "none"
         /\ req[r].amount > 0
         /\ accounts[req[r].from].exists
         /\ req[r].op = "transfer" => accounts[req[r].to].exists)
            => /\ req[r].fromFound
               /\ req[r].res # "503"

\* C12: a notification task is queued only after the unit of its movement
\* has committed.  Every task queued behind a request refers to the
\* Transaction of that request and that Transaction is in the store; a request
\* that was rejected, found no account or failed to commit has queued nothing;
\* and the step that queues a task is taken from a state in which the
\* Transaction was already committed.
C12_QueuedRefersToCommitted ==
    \A r \in Requests :
        /\ \A n \in req[r].queued :
            /\ n.transaction_id = req[r].tx
            /\ Committed(n.transaction_id)
        /\ (req[r].pc = "done" /\ req[r].res \notin {"200", "500"})
                => req[r].queued = {}
        /\ ~Committed(req[r].tx) => req[r].queued = {}

C12_QueuedAfterCommit ==
    \A r \in Requests :
        (req'[r].queued # {} /\ req[r].queued = {})
            => /\ Committed(req[r].tx)
               /\ req[r].pc = "post"
               /\ UNCHANGED store

C12_NotifyOnlyAfterCommit ==
    []C12_QueuedRefersToCommitted /\ [][C12_QueuedAfterCommit]_vars

\* A successful transfer with the tasks of both parties queued.
C12_Witness ==
    \E r \in Requests :
        /\ req[r].op = "transfer"
        /\ req[r].res = "200"
        /\ \E n, m \in req[r].queued :
            /\ n.account_id # m.account_id
            /\ n.channel = "sms"
            /\ m.channel = "email"

\* C13: no read and no other movement observes a partially applied movement.
\* What the read routes return in any state: every Entry of an account
\* belongs to a Transaction that is in the store and COMPLETED; a TRANSFER
\* Transaction shows its debit and its credit together, a DEPOSIT or
\* WITHDRAWAL Transaction its one Entry.  And the step in which the entries of
\* an account grow is the step in which the committing unit writes that
\* account's balance (the balance the unit read, plus or minus its amount; no
\* write when that is the balance it read), while a step that changes a
\* balance adds an Entry of that account.
C13_ReadsSeeWholeUnits ==
    /\ \A a \in AccountIds :
        \A i \in DOMAIN get_account_entries(a) :
            LET t == get_account_entries(a)[i].transaction_id
            IN Committed(t) /\ transactions[t].status = "COMPLETED"
    /\ \A t \in DOMAIN transactions :
        LET es == get_transaction_entries(t)
        IN IF transactions[t].type = "TRANSFER"
           THEN /\ Len(es) = 2
                /\ es[1].amount < 0
                /\ es[2].amount = -es[1].amount
                /\ TransferRowsOf(t) # {}
           ELSE Len(es) = 1

UnitBalance(r, a) ==
    IF req[r].op = "deposit" THEN req[r].fromBal + req[r].amount
    ELSE IF req[r].op = "withdraw" THEN req[r].fromBal - req[r].amount
    ELSE IF req[r].from = req[r].to THEN req[r].fromBal
    ELSE IF a = req[r].from THEN req[r].fromBal - req[r].amount
    ELSE req[r].toBal + req[r].amount

UnitLoaded(r, a) == IF a = req[r].from THEN req[r].fromBal ELSE req[r].toBal

C13_EntryWithBalanceWrite ==
    \A a \in AccountIds :
        /\ get_account_entries(a)' # get_account_entries(a) =>
            \E r \in Requests :
                /\ req[r].pc = "commit"
                /\ req'[r].pc = "post"
                /\ a \in {req[r].from, req[r].to}
                /\ get_account_balance(a)' =
                        IF UnitBalance(r, a) = UnitLoaded(r, a)
                        THEN get_account_balance(a)
                        ELSE UnitBalance(r, a)
                /\ Committed(req[r].tx)'
        /\ get_account_balance(a)' # get_account_balance(a) =>
            get_account_entries(a)' # get_account_entries(a)

C14_BalanceOnlyWithEntry ==
    [][\A a \in AccountIds :
        (accounts[a].exists /\ accounts'[a].exists
            /\ accounts'[a].balance # accounts[a].balance)
            => EntriesOfAccount(a)' # EntriesOfAccount(a)]_vars

\* C15: an Entry is append-only: no step changes a field of a committed Entry
\* or removes it.
C15_EntryAppendOnly ==
    [][\A i \in DOMAIN entries :
        /\ i \in DOMAIN entries'
        /\ entries'[i] = entries[i]]_vars

\* C16: the status of a Transaction only moves from PENDING to COMPLETED or
\* to FAILED, and no step changes the status, the type or completed_at of a
\* COMPLETED Transaction.
C16_CompletedImmutable ==
    [][\A t \in DOMAIN transactions :
        t \in DOMAIN transactions' =>
            /\ transactions'[t].status # transactions[t].status =>
                /\ transactions[t].status = "PENDING"
                /\ transactions'[t].status \in {"COMPLETED", "FAILED"}
            /\ transactions[t].status = "COMPLETED" =>
                transactions'[t] = transactions[t]]_vars

\* C17: every Transfer row references a Transaction of type TRANSFER that
\* has exactly two entries, the debit of Transfer.amount on the source and the
\* credit of Transfer.amount on the destination, and no Transaction has more
\* than one Transfer row.
C17_TransferRowShape ==
    /\ \A i \in DOMAIN transfers :
        LET t == transfers[i].transaction_id
            es == EntriesOfTx(t)
        IN /\ Committed(t)
           /\ transactions[t].type = "TRANSFER"
           /\ Len(es) = 2
           /\ \E d, c \in 1..2 :
                /\ d # c
                /\ es[d].account_id = transfers[i].from_account_id
                /\ es[d].amount = -transfers[i].amount
                /\ es[c].account_id = transfers[i].to_account_id
                /\ es[c].amount = transfers[i].amount
    /\ \A t \in DOMAIN transactions : Cardinality(TransferRowsOf(t)) <= 1

CommitsAs(r, op) ==
    /\ req[r].op = op
    /\ req[r].pc = "commit"
    /\ req'[r].pc = "post"

\* C18: a successful deposit of amount a into account A adds exactly one
\* Transaction (DEPOSIT, COMPLETED, completed_at set) and one Entry (A, +a,
\* the currency of A, that Transaction), increases the balance of A by
\* exactly a and changes nothing else.
C18_DepositEffect ==
    [][\A r \in Requests :
        (CommitsAs(r, "deposit") /\ req[r].amount > 0) =>
            /\ transactions' = transactions @@ (req[r].tx :>
                    [type |-> "DEPOSIT", status |-> "COMPLETED", completed_at |-> TRUE])
            /\ entries' = Append(entries,
                    [account_id |-> req[r].from, amount |-> req[r].amount,
                     currency_code |-> accounts[req[r].from].currency_code,
                     transaction_id |-> req[r].tx])
            /\ accounts'[req[r].from].balance =
                    accounts[req[r].from].balance + req[r].amount
            /\ \A b \in AccountIds \ {req[r].from} : accounts'[b] = accounts[b]
            /\ transfers' = transfers]_vars

\* C19: a successful transfer of amount a from A to a different account B
\* decreases the balance of A by exactly a, increases the balance of B by
\* exactly a, and adds one Transaction, one Transfer row (A, B, a) and the
\* two entries -a on A and +a on B, all of that Transaction; nothing else
\* changes.
C19_TransferEffect ==
    [][\A r \in Requests :
        (CommitsAs(r, "transfer") /\ req[r].from # req[r].to) =>
            /\ accounts'[req[r].from].balance =
                    accounts[req[r].from].balance - req[r].amount
            /\ accounts'[req[r].to].balance =
                    accounts[req[r].to].balance + req[r].amount
            /\ DOMAIN transactions' = DOMAIN transactions \cup {req[r].tx}
            /\ \A t \in DOMAIN transactions : transactions'[t] = transactions[t]
            /\ Len(transfers') = Len(transfers) + 1
            /\ transfers'[Len(transfers')].transaction_id = req[r].tx
            /\ transfers'[Len(transfers')].from_account_id = req[r].from
            /\ transfers'[Len(transfers')].to_account_id = req[r].to
            /\ transfers'[Len(transfers')].amount = req[r].amount
            /\ entries' = entries \o
                << [account_id |-> req[r].from, amount |-> -req[r].amount,
                    currency_code |-> req[r].fromCur, transaction_id |-> req[r].tx],
                   [account_id |-> req[r].to, amount |-> req[r].amount,
                    currency_code |-> req[r].toCur, transaction_id |-> req[r].tx] >>]_vars

\* C20: every Transaction a deposit, a withdraw or a transfer commits is
\* COMPLETED with completed_at set in the state its unit commits, and stays
\* so in every state the movement operations reach; no TRANSFER Transaction is
\* in the store with status PENDING.
C20_CommittedAreCompleted ==
    \A t \in DOMAIN transactions :
        /\ transactions[t].status = "COMPLETED"
        /\ transactions[t].completed_at

\* A transfer, flushed PENDING, whose unit has just committed.
C20_Witness ==
    \E r \in Requests :
        /\ req[r].op = "transfer"
        /\ req[r].pc = "post"
        /\ Committed(req[r].tx)
        /\ transactions[req[r].tx].type = "TRANSFER"
        /\ transactions[req[r].tx].status = "COMPLETED"

SmsQueued(r, a) ==
    \E n \in req[r].queued : n.channel = "sms" /\ n.account_id = a

EmailQueued(r, a) ==
    \E n \in req[r].queued : n.channel = "email" /\ n.account_id = a

AllDigits(s) == \A i \in DOMAIN s : s[i] \in Digits

\* "+" followed by 2 to 15 digits, the first of them not zero.
PlusE164(s) ==
    /\ s # <<>>
    /\ s[1] = "+"
    /\ Len(Tail(s)) \in 2..15
    /\ AllDigits(Tail(s))
    /\ Tail(s)[1] # "0"

\* An optional "+" followed by 2 to 15 digits, the first of them not zero.
OptionalPlusE164(s) ==
    LET d == IF s # <<>> /\ s[1] = "+" THEN Tail(s) ELSE s
    IN /\ Len(d) \in 2..15
       /\ AllDigits(d)
       /\ d[1] # "0"

Queued(r, role, channel, a, bal) ==
    \E n \in req[r].queued :
        /\ n.role = role
        /\ n.channel = channel
        /\ n.account_id = a
        /\ n.balance = bal

\* C22: the step that answers a committed transfer with success has queued,
\* for the sender and for the receiver separately, an email task if that
\* party's owner has an email and an SMS task if that owner's phone number
\* passes the check; the sender's messages quote the committed balance of the
\* source account and the receiver's those of the destination account, as
\* refreshed after the commit; nothing else is queued.
C22_EachPartyNotified ==
    \A r \in Requests :
        (/\ req[r].op = "transfer"
         /\ req[r].pc = "post"
         /\ req'[r].pc = "done"
         /\ req'[r].res = "200") =>
            /\ Queued(r, "sender", "email", req[r].from,
                      accounts[req[r].from].balance)' <=> OwnerEmail(req[r].from)
            /\ Queued(r, "sender", "sms", req[r].from,
                      accounts[req[r].from].balance)' <=> OwnerPhoneValid(req[r].from)
            /\ Queued(r, "receiver", "email", req[r].to,
                      accounts[req[r].to].balance)' <=> OwnerEmail(req[r].to)
            /\ Queued(r, "receiver", "sms", req[r].to,
                      accounts[req[r].to].balance)' <=> OwnerPhoneValid(req[r].to)
            /\ \A n \in req'[r].queued :
                /\ n.role \in {"sender", "receiver"}
                /\ n.account_id = (IF n.role = "sender" THEN req[r].from ELSE req[r].to)
                /\ n.balance = accounts[n.account_id].balance

C22_TransferNotifications == [][C22_EachPartyNotified]_vars

\* A transfer from account 1 to account 2 answered with success: the sender
\* got the email and the SMS, the receiver, whose number fails the check, the
\* email alone.
C22_Witness ==
    \E r \in Requests :
        /\ req[r].op = "transfer"
        /\ req[r].res = "200"
        /\ req[r].from # req[r].to
        /\ \E n \in req[r].queued : n.role = "sender" /\ n.channel = "sms"
        /\ \E n \in req[r].queued : n.role = "receiver" /\ n.channel = "email"
        /\ ~\E n \in req[r].queued : n.role = "receiver" /\ n.channel = "sms"
        /\ \E n, m \in req[r].queued : n.balance # m.balance


\* C23: a statement query of account A with both start_date and end_date
\* answers exactly the entries of A created from 00:00:00 of start_date to the
\* end of end_date, newest first, cut to the page given by skip and limit
\* (an empty list when nothing matches); the limit is accepted from 1 to 200.
InWindow(a, start, end) ==
    {i \in DOMAIN entries :
        /\ entries[i].account_id = a
        /\ entries[i].created_at >= StartOfDay(start)
        /\ entries[i].created_at <= EndOfDay(end)}

Max(x, y) == IF x > y THEN x ELSE y

C23_StatementWindow ==
    reads.route = "statement" =>
        /\ reads.code = "422" <=>
                (reads.skip < 0 \/ reads.limit < 1 \/ reads.limit > 200)
        /\ (reads.code = "200" /\ reads.start_date # Null /\ reads.end_date # Null) =>
            LET body == reads.body
                match == InWindow(reads.account_id, reads.start_date, reads.end_date)
                at(i) == entries[i].created_at
            IN /\ \A k \in DOMAIN body : body[k] \in match
               /\ \A k, l \in DOMAIN body : k # l => body[k] # body[l]
               /\ \A k \in 1..(Len(body) - 1) : at(body[k]) >= at(body[k + 1])
               /\ Len(body) = Min(reads.limit, Max(0, Cardinality(match) - reads.skip))
               /\ \A k \in DOMAIN body :
                    /\ Cardinality({m \in match : at(m) > at(body[k])})
                            <= reads.skip + k - 1
                    /\ Cardinality({m \in match : at(m) >= at(body[k])})
                            >= reads.skip + k

\* A second page of a statement whose window holds several entries of the
\* account and leaves another of its entries out.
C23_Witness ==
    /\ reads.route = "statement"
    /\ reads.code = "200"
    /\ reads.start_date # Null
    /\ reads.end_date # Null
    /\ reads.skip = 1
    /\ Len(reads.body) = 1
    /\ Cardinality(InWindow(reads.account_id, reads.start_date, reads.end_date)) >= 2
    /\ \E i \in DOMAIN entries :
          /\ entries[i].account_id = reads.account_id
          /\ i \notin InWindow(reads.account_id, reads.start_date, reads.end_date)


\* C24: with no filter and a page large enough, the transaction history of
\* account A holds Transaction T exactly when A has an Entry whose
\* transaction_id is T; so the destination account of a transfer has the
\* transfer's Transaction in its history, and an account without entries has
\* an empty history.
Unfiltered(r) ==
    /\ r.route = "transactions"
    /\ r.code = "200"
    /\ r.start_date = Null
    /\ r.end_date = Null
    /\ r.type = ""
    /\ r.skip = 0
    /\ r.limit >= Cardinality(DOMAIN transactions)

InBody(t) == \E k \in DOMAIN reads.body : reads.body[k] = t

HasEntryOf(a, t) ==
    \E i \in DOMAIN entries :
        entries[i].account_id = a /\ entries[i].transaction_id = t

C24_HistoryIffEntry ==
    Unfiltered(reads) =>
        /\ \A k \in DOMAIN reads.body : reads.body[k] \in DOMAIN transactions
        /\ \A t \in DOMAIN transactions :
                InBody(t) <=> HasEntryOf(reads.account_id, t)
        /\ \A i \in DOMAIN transfers :
                transfers[i].to_account_id = reads.account_id =>
                    InBody(transfers[i].transaction_id)
        /\ EntriesOfAccount(reads.account_id) = <<>> => reads.body = <<>>

\* The history of the destination of a transfer from another account, in a
\* store that also holds a Transaction the account has no entry of.
C24_Witness ==
    /\ Unfiltered(reads)
    /\ \E i \in DOMAIN transfers :
          /\ transfers[i].to_account_id = reads.account_id
          /\ transfers[i].from_account_id # reads.account_id
          /\ InBody(transfers[i].transaction_id)
    /\ \E t \in DOMAIN transactions : ~InBody(t)

\* C25: the transaction history is ordered by completed_at, newest first, the
\* Transactions without completed_at after all the others, and skip and limit
\* cut the page out of that order.
Earlier(x, y) == IF x = Null THEN y # Null ELSE y # Null /\ x < y

C25_HistoryOrder ==
    (reads.route = "transactions" /\ reads.code = "200") =>
        LET body == reads.body
            match == HistoryRows(reads.account_id, reads.start_date,
                                 reads.end_date, reads.type)
            at(t) == transactions[t].completed_at
        IN /\ \A k \in DOMAIN body : body[k] \in match
           /\ \A k, l \in DOMAIN body : k # l => body[k] # body[l]
           /\ \A k, l \in DOMAIN body :
                k < l => /\ ~Earlier(at(body[k]), at(body[l]))
                         /\ at(body[k]) = Null => at(body[l]) = Null
           /\ Len(body) = Min(reads.limit, Max(0, Cardinality(match) - reads.skip))
           /\ \A k \in DOMAIN body :
                /\ Cardinality({m \in match : Earlier(at(body[k]), at(m))})
                        <= reads.skip + k - 1
                /\ Cardinality({m \in match : ~Earlier(at(m), at(body[k]))})
                        >= reads.skip + k

\* The second page of one Transaction each of a history that holds a
\* Transaction with completed_at and one without: the page is the one without.
C25_Witness ==
    /\ reads.route = "transactions"
    /\ reads.code = "200"
    /\ reads.skip = 1
    /\ reads.limit = 1
    /\ Len(reads.body) = 1
    /\ transactions[reads.body[1]].completed_at = Null
    /\ \E t \in HistoryRows(reads.account_id, reads.start_date,
                             reads.end_date, reads.type) :
            transactions[t].completed_at # Null


\* C26: a transfer is validated in this order: a missing source account is
\* answered NOT_FOUND for the source even if the destination is missing too;
\* then a missing destination is answered NOT_FOUND for the destination; then
\* a source balance below the amount is answered insufficient funds even if
\* the currencies differ; then differing currencies are answered as a
\* currency mismatch; none of these answers changes the store.
C26_Validated(r) ==
    (req[r].pc = "select_to" /\ req'[r].pc # "select_to") =>
        LET source == req[r].fromFound
            destination == accounts[req[r].to].exists
            funds == req[r].fromBal >= req[r].amount
            same == req[r].fromCur = accounts[req[r].to].currency_code
            res == req'[r].res
        IN /\ ~source => res = "404 source"
           /\ (source /\ ~destination) => res = "404 destination"
           /\ (source /\ destination /\ ~funds) => res = "400 insufficient funds"
           /\ (source /\ destination /\ funds /\ ~same) =>
                    res = "400 currency mismatch"
           /\ (source /\ destination /\ funds /\ same) <=> req'[r].pc = "flush"
           /\ store' = store

C26_ValidationOrder == [][\A r \in Requests : C26_Validated(r)]_vars

\* A transfer answered insufficient funds between two existing accounts of
\* different currencies, the store being what it was.
C26_Witness ==
    \E r \in Requests :
        /\ req[r].op = "transfer"
        /\ req[r].res = "400 insufficient funds"
        /\ req[r].from # req[r].to
        /\ req[r].toFound
        /\ req[r].fromCur # req[r].toCur
        /\ req[r].fromBal < req[r].amount


\* C27: starting from balances that are not negative, and with every deposit,
\* withdrawal and transfer of a strictly positive amount, no account has a
\* negative committed balance, however the requests interleave.
PositiveAmounts ==
    \A i \in DOMAIN entries :
        LET t == entries[i].transaction_id
        IN /\ entries[i].amount # 0
           /\ (Committed(t) /\ transactions[t].type = "DEPOSIT") =>
                    entries[i].amount > 0
           /\ (Committed(t) /\ transactions[t].type = "WITHDRAWAL") =>
                    entries[i].amount < 0

C27_NeverNegative ==
    PositiveAmounts =>
        \A a \in AccountIds : accounts[a].exists => accounts[a].balance >= 0

\* Two movements of positive amounts that raced on account 1 and debited it
\* by more than it held; its balance is not negative.
C27_Witness ==
    /\ PositiveAmounts
    /\ Len(entries) >= 2
    /\ OpeningBalance(1) + SumAmounts(EntriesOfAccount(1)) < 0
    /\ accounts[1].balance >= 0


\* C28: transfers conserve money: when the only movements are transfers,
\* however they interleave, the sum of the balances of the accounts of one
\* currency stays what it was.
BalanceIn(a, c, bal) ==
    IF accounts[a].exists /\ accounts[a].currency_code = c THEN bal ELSE 0

RECURSIVE TotalIn(_, _)
TotalIn(S, c) ==
    IF S = {} THEN 0
    ELSE LET a == CHOOSE x \in S : TRUE
         IN BalanceIn(a, c, accounts[a].balance) + TotalIn(S \ {a}, c)

RECURSIVE OpeningIn(_, _)
OpeningIn(S, c) ==
    IF S = {} THEN 0
    ELSE LET a == CHOOSE x \in S : TRUE
         IN BalanceIn(a, c, OpeningBalance(a)) + OpeningIn(S \ {a}, c)

OnlyTransfers ==
    \A t \in DOMAIN transactions : transactions[t].type = "TRANSFER"

C28_TransfersConserve ==
    OnlyTransfers =>
        \A c \in Currencies : TotalIn(AccountIds, c) = OpeningIn(AccountIds, c)


\* C29: a transfer from account A to A itself, A holding at least the amount,
\* passes the validation; its unit leaves the balance of A as it is and adds
\* one Transaction, one Transfer row (A, A, amount) and the two entries
\* -amount and +amount on A.
C29_SelfTransferStep(r) ==
    /\ (/\ req[r].pc = "select_to"
        /\ req'[r].pc # "select_to"
        /\ req[r].from = req[r].to
        /\ req[r].fromFound
        /\ req[r].fromBal >= req[r].amount) => req'[r].pc = "flush"
    /\ (CommitsAs(r, "transfer") /\ req[r].from = req[r].to) =>
            /\ accounts' = accounts
            /\ DOMAIN transactions' = DOMAIN transactions \cup {req[r].tx}
            /\ req[r].tx \notin DOMAIN transactions
            /\ transactions'[req[r].tx].type = "TRANSFER"
            /\ \A t \in DOMAIN transactions : transactions'[t] = transactions[t]
            /\ transfers' = Append(transfers,
                    [transaction_id |-> req[r].tx, from_account_id |-> req[r].from,
                     to_account_id |-> req[r].from, amount |-> req[r].amount,
                     currency_code |-> accounts[req[r].from].currency_code])
            /\ entries' = entries \o
                << [account_id |-> req[r].from, amount |-> -req[r].amount,
                    currency_code |-> accounts[req[r].from].currency_code,
                    transaction_id |-> req[r].tx],
                   [account_id |-> req[r].from, amount |-> req[r].amount,
                    currency_code |-> accounts[req[r].from].currency_code,
                    transaction_id |-> req[r].tx] >>

C29_SelfTransfer == [][\A r \in Requests : C29_SelfTransferStep(r)]_vars

\* A committed transfer of account 1 to itself, the only movement so far: the
\* balance is the opening one.
C29_Witness ==
    /\ Len(transfers) = 1
    /\ transfers[1].from_account_id = 1
    /\ transfers[1].to_account_id = 1
    /\ transfers[1].amount > 0
    /\ Len(entries) = 2
    /\ accounts[1].balance = OpeningBalance(1)


\* C30: what a deposit, a withdrawal or a transfer answers and changes does
\* not depend on the status of the accounts (ACTIVE, INACTIVE, CLOSED,
\* FROZEN): a request is taken up to its unit of work exactly when the
\* account exists, the amount is valid and the funds suffice, whatever the
\* status, and no movement changes a status.
C30_StatusBlind(r) ==
    /\ (req[r].pc = "idle" /\ req'[r].op = "deposit") =>
            (req'[r].pc = "flush" <=>
                /\ ServiceDependencies = "ok"
                /\ accounts[req'[r].from].exists)
    /\ (req[r].pc = "idle" /\ req'[r].op = "withdraw") =>
            (req'[r].pc = "flush" <=>
                /\ ServiceDependencies = "ok"
                /\ req'[r].amount > 0
                /\ accounts[req'[r].from].exists
                /\ accounts[req'[r].from].balance >= req'[r].amount)
    /\ (req[r].pc = "select_to" /\ req'[r].pc # "select_to") =>
            (req'[r].pc = "flush" <=>
                /\ req[r].fromFound
                /\ accounts[req[r].to].exists
                /\ req[r].fromBal >= req[r].amount
                /\ req[r].fromCur = accounts[req[r].to].currency_code)
    /\ \A a \in AccountIds : accounts'[a].status = accounts[a].status

C30_StatusIndependent == [][\A r \in Requests : C30_StatusBlind(r)]_vars

\* A deposit committed on a FROZEN account and a transfer committed from a
\* CLOSED account.
C30_Witness ==
    /\ \E t \in DOMAIN transactions :
          /\ transactions[t].type = "DEPOSIT"
          /\ \E i \in DOMAIN entries :
                /\ entries[i].transaction_id = t
                /\ accounts[entries[i].account_id].status = "FROZEN"
    /\ \E i \in DOMAIN transfers :
          accounts[transfers[i].from_account_id].status = "CLOSED"

====
